---- MODULE Spec2Model ----
(***************************************************************************)
(* Model of the banking ETL of desafio_reals_bet: the transformation       *)
(* routines of src/src/transform.py, the orchestrator of src/src/main.py,  *)
(* the ingestion of src/src/extract.py and the load script src/src/load.py.*)
(*                                                                         *)
(* Each routine has its own specification (SpecUf, SpecMap, ...) over its  *)
(* own variables; the variables of the other routines stay idle.           *)
(*                                                                         *)
(* Conventions: a text is a sequence of one-character strings; a number of *)
(* a float column is an exact rational [n, d] and the float NaN is the     *)
(* value with d = 0; a missing value of an object column is None.          *)
(***************************************************************************)
EXTENDS Integers, Sequences, FiniteSets, TLC

VARIABLES
    endereco, uf, uf_pc,                                \* extrair_uf
    df_in, df, coluna, mapeamento, map_pc, map_raised,  \* aplicar_mapeamento
    propostas_credito, prop_out, prop_pc,               \* transformar_propostas
    agencias, contas, transacoes, tab_out, tab_pc,      \* transformar_agencias, transformar_transacoes
    clientes, cli_out, cli_raised, cli_pc,              \* transformar_clientes
    pc, ETL_EXECUTING, runs, exc, exit_code, reported,  \* executar_etl
    source_files, stage, tabelas, warnings, pkl_extraidos,
    pkl_transformados, csv_tratados, stage_error        \* extract.py, transform.py, load.py

vars_uf == <<endereco, uf, uf_pc>>
vars_map == <<df_in, df, coluna, mapeamento, map_pc, map_raised>>
vars_prop == <<propostas_credito, prop_out, prop_pc>>
vars_tab == <<agencias, contas, transacoes, tab_out, tab_pc>>
vars_cli == <<clientes, cli_out, cli_raised, cli_pc>>
vars_etl == <<pc, ETL_EXECUTING, runs, exc, exit_code, reported>>
vars_pipe == <<source_files, stage, tabelas, warnings, pkl_extraidos,
               pkl_transformados, csv_tratados, stage_error>>
vars == <<vars_uf, vars_map, vars_prop, vars_tab, vars_cli, vars_etl, vars_pipe>>

\* Python's None / a missing value of an object column.
None == "None"

\* A str value of the address column, and its missing value (None / NaN).
Str(t) == [isna |-> FALSE, str |-> t]
NaText == [isna |-> TRUE, str |-> <<>>]

\* The state of a routine that is not being run.
IdleUf == endereco = NaText /\ uf = None /\ uf_pc = "idle"
IdleMap ==
    /\ df_in = <<>> /\ df = <<>> /\ coluna = None /\ mapeamento = None
    /\ map_pc = "idle" /\ map_raised = FALSE
IdleProp == propostas_credito = <<>> /\ prop_out = <<>> /\ prop_pc = "idle"
IdleTab ==
    /\ agencias = <<>> /\ contas = <<>> /\ transacoes = <<>>
    /\ tab_out = <<>> /\ tab_pc = "idle"
IdleCli == clientes = <<>> /\ cli_out = <<>> /\ cli_raised = FALSE /\ cli_pc = "idle"
IdleEtl ==
    /\ pc = <<>> /\ ETL_EXECUTING = None /\ runs = <<>> /\ exc = <<>>
    /\ exit_code = <<>> /\ reported = <<>>
IdlePipe ==
    /\ source_files = {} /\ stage = [name |-> "idle", k |-> 0]
    /\ tabelas = {} /\ warnings = {}
    /\ pkl_extraidos = {} /\ pkl_transformados = {} /\ csv_tratados = {}
    /\ stage_error = None

(***************************************************************************)
(* Character classes of Python's re on str patterns (ASCII part).          *)
(***************************************************************************)
UpperSeq ==
    <<"A","B","C","D","E","F","G","H","I","J","K","L","M",
      "N","O","P","Q","R","S","T","U","V","W","X","Y","Z">>
LowerSeq ==
    <<"a","b","c","d","e","f","g","h","i","j","k","l","m",
      "n","o","p","q","r","s","t","u","v","w","x","y","z">>
Range(s) == {s[i] : i \in DOMAIN s}
Upper == Range(UpperSeq)
Lower == Range(LowerSeq)
Digit == {"0","1","2","3","4","5","6","7","8","9"}
WordChars == Upper \cup Lower \cup Digit \cup {"_"}
Whitespace == {" ", "\n", "\t"}

\* str.upper() on one character.
ToUpper(c) ==
    IF c \in Lower THEN UpperSeq[CHOOSE i \in DOMAIN LowerSeq : LowerSeq[i] = c]
    ELSE c

SetMin(S) == CHOOSE x \in S : \A y \in S : x <= y

(***************************************************************************)
(* extrair_uf: transform.py lines 105-120.                                 *)
(***************************************************************************)
\* \s* is greedy: the first position from j on that holds no whitespace.
RECURSIVE SkipSpaces(_, _)
SkipSpaces(s, j) ==
    IF j <= Len(s) /\ s[j] \in Whitespace THEN SkipSpaces(s, j + 1) ELSE j

IsWordAt(s, k) == k >= 1 /\ k <= Len(s) /\ s[k] \in WordChars
\* \b between positions k-1 and k.
WordBoundary(s, k) == IsWordAt(s, k - 1) # IsWordAt(s, k)
\* [A-Z]{2} at position j.
TwoUpperAt(s, j) == j >= 1 /\ j + 1 <= Len(s) /\ s[j] \in Upper /\ s[j + 1] \in Upper
\* \d{n} at position k.
DigitsAt(s, k, n) == k + n - 1 <= Len(s) /\ \A m \in k..(k + n - 1) : s[m] \in Digit
\* $ : the end of the string, or just before a newline that ends the string.
AtDollar(s, k) == k = Len(s) + 1 \/ (k = Len(s) /\ s[k] = "\n")

\* Where the group of pattern p starts when the pattern matches from position i
\* (0: no match from i).
\* 1: /\s*([A-Z]{2})\b   2: \b([A-Z]{2})\s*\d{5}-?\d{3}$   3: \b([A-Z]{2})\s*$
GroupStart(p, s, i) ==
    CASE p = 1 ->
            LET j == SkipSpaces(s, i + 1)
            IN  IF s[i] = "/" /\ TwoUpperAt(s, j) /\ WordBoundary(s, j + 2)
                THEN j ELSE 0
      [] p = 2 ->
            LET j == SkipSpaces(s, i + 2)
                k == IF j + 5 <= Len(s) /\ s[j + 5] = "-" THEN j + 6 ELSE j + 5
            IN  IF /\ WordBoundary(s, i) /\ TwoUpperAt(s, i)
                   /\ DigitsAt(s, j, 5) /\ DigitsAt(s, k, 3) /\ AtDollar(s, k + 3)
                THEN i ELSE 0
      [] OTHER ->
            LET j == SkipSpaces(s, i + 2)
            IN  IF /\ WordBoundary(s, i) /\ TwoUpperAt(s, i)
                   /\ \E k \in (i + 2)..j : AtDollar(s, k)
                THEN i ELSE 0

\* The order in which the patterns are tried (the list padroes).
PadroesReversed == <<3, 2, 1>>
padroes == <<1, 2, 3>>

\* re.search(padrao, s): where group(1) of the leftmost match starts; 0 when
\* nothing matches.
ReSearch(p, s) ==
    LET I == {i \in 1..Len(s) : GroupStart(p, s, i) # 0}
    IN  IF I = {} THEN 0 ELSE GroupStart(p, s, SetMin(I))

\* match.group(1) of a match whose group starts at g.
Group1(s, g) == s[g] \o s[g + 1]
\* match.group(1).upper()
GroupUpper(s, g) == ToUpper(s[g]) \o ToUpper(s[g + 1])

\* for padrao in padroes: ... return on the first match; return None
RECURSIVE TryPadroes(_, _)
TryPadroes(s, k) ==
    IF k > Len(padroes) THEN None
    ELSE LET g == ReSearch(padroes[k], s)
         IN  IF g # 0 THEN GroupUpper(s, g) ELSE TryPadroes(s, k + 1)

extrair_uf(e) == IF e.isna THEN None ELSE TryPadroes(e.str, 1)

(***************************************************************************)
(* Addresses: every concatenation of at most MaxSegs segments, and the     *)
(* three addresses the documentation gives.                                *)
(***************************************************************************)
MaxSegs == 3

Segments ==
    { <<"/"," ","S","P">>, <<"/","S","P">>, <<"/">>, <<" ","R","S">>, <<"R","S">>,
      <<" ">>, <<"9","0","0","0","0","-","0","0","0">>,
      <<"9","0","0","0","0","0","0","0">>, <<"9","0","0","0","-","0","0","0">>,
      <<"R","u","a"," ","A">>, <<"s","p">>, <<"\n">> }

RECURSIVE TextsOf(_)
TextsOf(n) ==
    IF n = 0 THEN {<<>>}
    ELSE LET T == TextsOf(n - 1) IN T \cup {t \o sg : t \in T, sg \in Segments}

AvPaulista ==
    <<"A","v","."," ","P","a","u","l","i","s","t","a",","," ",
      "1","0","0","0"," ","/"," ","S","P">>
RuaA ==
    <<"R","u","a"," ","A"," ","0","1","3","1","0","-","1","0","0"," ","R","S">>
SemEstado == <<"s","e","m"," ","e","s","t","a","d","o">>

Enderecos == TextsOf(MaxSegs) \cup {AvPaulista, RuaA, SemEstado}

InitUf ==
    /\ endereco \in {NaText} \cup {Str(t) : t \in Enderecos}
    /\ uf = None
    /\ uf_pc = "call"
    /\ IdleMap /\ IdleProp /\ IdleTab /\ IdleCli /\ IdleEtl /\ IdlePipe

ExtrairUf ==
    /\ uf_pc = "call"
    /\ uf' = extrair_uf(endereco)
    /\ uf_pc' = "done"
    /\ UNCHANGED endereco

NextUf ==
    ExtrairUf /\ UNCHANGED <<vars_map, vars_prop, vars_tab, vars_cli, vars_etl, vars_pipe>>
SpecUf == InitUf /\ [][NextUf]_vars

TwoLetterCodes == {a \o b : a, b \in Upper}

\* C10: extrair_uf returns None for a missing address; otherwise the result is
\* None or one two-letter uppercase code, namely the group of the first of the
\* patterns 1, 2, 3 (in this order) that matches: pattern 1 wins whenever it
\* matches, whatever patterns 2 and 3 would capture; and the three documented
\* addresses give SP, RS and None.
C10_ExtrairUfFirstPattern ==
    uf_pc = "done" =>
        /\ uf = None \/ uf \in TwoLetterCodes
        /\ endereco.isna => uf = None
        /\ ~endereco.isna =>
              LET s == endereco.str
                  g1 == ReSearch(1, s)
                  g2 == ReSearch(2, s)
                  g3 == ReSearch(3, s)
              IN  /\ g1 # 0 => uf = Group1(s, g1)
                  /\ (g1 = 0 /\ g2 # 0) => uf = Group1(s, g2)
                  /\ (g1 = 0 /\ g2 = 0 /\ g3 # 0) => uf = Group1(s, g3)
                  /\ (g1 = 0 /\ g2 = 0 /\ g3 = 0) => uf = None
        /\ endereco = Str(AvPaulista) => uf = "SP"
        /\ endereco = Str(RuaA) => uf = "RS"
        /\ endereco = Str(SemEstado) => uf = None

\* An address where pattern 1 and pattern 3 match different tokens, and the
\* token after the slash was returned.
C10_Witness ==
    /\ uf_pc = "done" /\ ~endereco.isna
    /\ LET s == endereco.str
           g1 == ReSearch(1, s)
           g3 == ReSearch(3, s)
       IN  /\ g1 # 0 /\ g3 # 0
           /\ Group1(s, g1) # Group1(s, g3)
           /\ uf = Group1(s, g1)

(***************************************************************************)
(* aplicar_mapeamento: transform.py lines 74-103.                          *)
(* A table is a sequence of rows; it has the columns "cod" and "outra".    *)
(* The mapping argument is a value of some type that may be callable; a    *)
(* call of it raises or returns a value of some type.                      *)
(***************************************************************************)
MaxRows == 2

Columns == {"cod", "outra"}
Codes == {"SP", "RS", "XX", None}
Labels == {"Sao Paulo", "RS", None}
Keys == {"SP", "RS"}

RECURSIVE SeqsUpTo(_, _)
SeqsUpTo(S, n) ==
    IF n = 0 THEN {<<>>}
    ELSE LET T == SeqsUpTo(S, n - 1) IN T \cup {Append(t, x) : t \in T, x \in S}

MapRows == [cod : Codes, outra : {"a", "b"}]
Dicts == UNION {[K -> Labels] : K \in SUBSET Keys}
EmptyDict == [k \in {} |-> None]

\* callable: callable(mapeamento); raises: the call raises; type, items: the
\* type and the items of the argument, or of what the call returns.
Mapeamentos ==
    {[callable |-> c, raises |-> FALSE, type |-> t, items |-> m] :
        c \in BOOLEAN, t \in {"dict", "MappingProxyType"}, m \in Dicts}
    \cup {[callable |-> c, raises |-> FALSE, type |-> "other", items |-> EmptyDict] :
            c \in BOOLEAN}
    \cup {[callable |-> TRUE, raises |-> TRUE, type |-> "other", items |-> EmptyDict]}

\* df[coluna]
Column(t, c) == [i \in DOMAIN t |-> t[i][c]]
\* df[coluna] = serie
SetColumn(t, c, serie) == [i \in DOMAIN t |-> [t[i] EXCEPT ![c] = serie[i]]]
\* Series.map(dict): a value that is no key of the dict maps to NaN.
SeriesMap(serie, m) ==
    [i \in DOMAIN serie |-> IF serie[i] \in DOMAIN m THEN m[serie[i]] ELSE None]
\* Series.fillna(other): the missing values are taken from other, by index.
FillNaDropped(serie, other) == serie
FillNa(serie, other) ==
    [i \in DOMAIN serie |-> IF serie[i] = None THEN other[i] ELSE serie[i]]

\* FALLBACK_MAP = {k: k for k in df[coluna].unique()}
FALLBACK_MAP(t, c) == [k \in Range(Column(t, c)) |-> k]

\* df[coluna] = df[coluna].map(m).fillna(df[coluna])
ApplyMap(t, c, m) ==
    SetColumn(t, c, FillNa(SeriesMap(Column(t, c), m), Column(t, c)))

\* The try block (lines 86-97): exc tells whether it raised.
TryBlock(t, c, mp) ==
    IF mp.callable /\ mp.raises THEN [exc |-> TRUE, df |-> t]
    ELSE LET safe_map == IF mp.type \in {"dict", "MappingProxyType"}
                         THEN mp.items ELSE FALLBACK_MAP(t, c)
         IN  [exc |-> FALSE, df |-> ApplyMap(t, c, safe_map)]

\* The except block (lines 99-101).
ExceptReraises(t, c) == [raised |-> TRUE, df |-> t]
ExceptBlock(t, c) == [raised |-> FALSE, df |-> ApplyMap(t, c, FALLBACK_MAP(t, c))]

aplicar_mapeamento(t, cols, c, mp) ==
    IF c \notin cols THEN [raised |-> FALSE, df |-> t]
    ELSE LET r == TryBlock(t, c, mp)
         IN  IF r.exc THEN ExceptBlock(t, c) ELSE [raised |-> FALSE, df |-> r.df]

InitMap ==
    /\ df_in \in SeqsUpTo(MapRows, MaxRows)
    /\ df = df_in
    /\ coluna \in {"cod", "ausente"}
    /\ mapeamento \in Mapeamentos
    /\ map_pc = "call"
    /\ map_raised = FALSE
    /\ IdleUf /\ IdleProp /\ IdleTab /\ IdleCli /\ IdleEtl /\ IdlePipe

AplicarMapeamento ==
    /\ map_pc = "call"
    /\ LET r == aplicar_mapeamento(df, Columns, coluna, mapeamento)
       IN  df' = r.df /\ map_raised' = r.raised
    /\ map_pc' = "done"
    /\ UNCHANGED <<df_in, coluna, mapeamento>>

NextMap ==
    AplicarMapeamento /\ UNCHANGED <<vars_uf, vars_prop, vars_tab, vars_cli, vars_etl, vars_pipe>>
SpecMap == InitMap /\ [][NextMap]_vars

ValidMapping(mp) == ~mp.raises /\ mp.type \in {"dict", "MappingProxyType"}

\* C4 as stated: with the column present and a valid mapping, the rows keep
\* their number and order, every value v of the column becomes mapping[v] when
\* v is a key and stays v otherwise, no non-null value becomes null, and the
\* other column is unchanged.
C4_MappingAsStated ==
    (map_pc = "done" /\ coluna \in Columns /\ ValidMapping(mapeamento)) =>
        /\ ~map_raised
        /\ Len(df) = Len(df_in)
        /\ \A i \in DOMAIN df_in :
              LET v == df_in[i].cod
                  m == mapeamento.items
              IN  /\ df[i].cod = IF v \in DOMAIN m THEN m[v] ELSE v
                  /\ v # None => df[i].cod # None
                  /\ df[i].outra = df_in[i].outra

\* C4 amended: as C4, except that v becomes mapping[v] only when v is a key
\* whose value is not null; a key mapped to a null value is left as it was.
C4_MappingNonNullValues ==
    (map_pc = "done" /\ coluna \in Columns /\ ValidMapping(mapeamento)) =>
        /\ ~map_raised
        /\ Len(df) = Len(df_in)
        /\ \A i \in DOMAIN df_in :
              LET v == df_in[i].cod
                  m == mapeamento.items
              IN  /\ df[i].cod = IF v \in DOMAIN m /\ m[v] # None THEN m[v] ELSE v
                  /\ v # None => df[i].cod # None
                  /\ df[i].outra = df_in[i].outra

\* A table with a known code that was replaced by its label and an unknown,
\* non-null code that was kept.
C4_Witness ==
    /\ map_pc = "done" /\ coluna \in Columns /\ ValidMapping(mapeamento)
    /\ \E i, j \in DOMAIN df_in :
          /\ df_in[i].cod \in DOMAIN mapeamento.items
          /\ df[i].cod = mapeamento.items[df_in[i].cod]
          /\ df[i].cod # df_in[i].cod
          /\ df_in[j].cod \notin DOMAIN mapeamento.items
          /\ df_in[j].cod # None
          /\ df[j].cod = df_in[j].cod

\* C5: aplicar_mapeamento returns normally whatever the mapping argument is;
\* with an argument that is no valid mapping, or whose call raises, the column
\* holds its original values; with the column absent the table is unchanged.
C5_NeverRaisesIdentityFallback ==
    map_pc = "done" =>
        /\ ~map_raised
        /\ coluna \notin Columns => df = df_in
        /\ (coluna \in Columns /\ ~ValidMapping(mapeamento)) => df = df_in

\* The call of the mapping raised, on a table with a known code, and the call
\* returned the table as it was.
C5_Witness ==
    /\ map_pc = "done" /\ coluna \in Columns
    /\ mapeamento.callable /\ mapeamento.raises
    /\ \E i \in DOMAIN df_in : df_in[i].cod \in Keys
    /\ ~map_raised /\ df = df_in

(***************************************************************************)
(* Numbers of float columns: exact rationals n/d with d > 0; NaN has d = 0.*)
(***************************************************************************)
Rat(n, d) == [n |-> n, d |-> d]
NaN == [n |-> 0, d |-> 0]
IsNaN(x) == x.d = 0
\* x == y on floats (NaN equals nothing).
RatEq(x, y) == ~IsNaN(x) /\ ~IsNaN(y) /\ x.n * y.d = y.n * x.d
\* x - y
RatSub(x, y) ==
    IF IsNaN(x) \/ IsNaN(y) THEN NaN ELSE Rat(x.n * y.d - y.n * x.d, x.d * y.d)

RECURSIVE SumOver(_, _)
\* The sum of f[i] over the indices i of I.
SumOver(f, I) ==
    IF I = {} THEN 0
    ELSE LET i == CHOOSE j \in I : TRUE IN f[i] + SumOver(f, I \ {i})

NonEmptySeqsUpTo(S, n) == SeqsUpTo(S, n) \ {<<>>}

(***************************************************************************)
(* transformar_propostas: transform.py lines 234-306.                      *)
(***************************************************************************)
MaxPropostas == 2

Colaboradores == {"c1", "c2", None}
Clientes == {"k1", "k2", None}
Status == {"Aprovada", "Negada"}
Valores == {100, 300}
PropostaRows ==
    [cod_colaborador : Colaboradores, cod_cliente : Clientes,
     status_proposta : Status, valor_proposta : Valores]

\* The rows of a group of groupby(col): groupby drops the rows whose key is null.
GroupRows(t, col, k) == {i \in DOMAIN t : t[i][col] = k}
GroupKeys(t, col) == {t[i][col] : i \in DOMAIN t} \ {None}

\* groupby(col)['status_proposta'].apply(lambda x: (x == 'Aprovada').sum())
NumAprovadas(t, col, k) ==
    Cardinality({i \in GroupRows(t, col, k) : t[i].status_proposta = "Aprovada"})
\* groupby(col).size()
TotalPropostas(t, col, k) == Cardinality(GroupRows(t, col, k))

\* (num_aprovadas / total_propostas) * 100, one entry for each key of the groupby.
TaxaAprovacao(t, col) ==
    [k \in GroupKeys(t, col) |->
        Rat(NumAprovadas(t, col, k) * 100, TotalPropostas(t, col, k))]

\* groupby(['status_proposta', 'cod_cliente'])['valor_proposta'].mean()
StatusClienteRows(t, st, k) ==
    {i \in DOMAIN t : t[i].status_proposta = st /\ t[i].cod_cliente = k}
MediaStatusCliente(t, st, k) ==
    LET I == StatusClienteRows(t, st, k)
    IN  Rat(SumOver([i \in DOMAIN t |-> t[i].valor_proposta], I), Cardinality(I))

\* A left merge onto a table with one row for each key: the value of the key,
\* NaN for a key the table does not have.
Lookup(m, k) == IF k \in DOMAIN m THEN m[k] ELSE NaN

\* lambda x: x[taxa] if x['status_proposta'] == 'Aprovada' else 0
TaxaKept(status, taxa) == taxa
ZerarTaxa(status, taxa) == IF status = "Aprovada" THEN taxa ELSE Rat(0, 1)

transformar_propostas(t) ==
    LET taxa_colab == TaxaAprovacao(t, "cod_colaborador")
        taxa_cliente == TaxaAprovacao(t, "cod_cliente")
        count_cliente ==
            [k \in GroupKeys(t, "cod_cliente") |->
                Rat(TotalPropostas(t, "cod_cliente", k), 1)]
        media(r) ==
            IF r.cod_cliente = None THEN NaN
            ELSE MediaStatusCliente(t, r.status_proposta, r.cod_cliente)
    IN  [i \in DOMAIN t |->
            [cod_colaborador |-> t[i].cod_colaborador,
             cod_cliente |-> t[i].cod_cliente,
             status_proposta |-> t[i].status_proposta,
             valor_proposta |-> t[i].valor_proposta,
             taxa_aprovacao_colab |->
                ZerarTaxa(t[i].status_proposta, Lookup(taxa_colab, t[i].cod_colaborador)),
             taxa_aprovacao_cliente |->
                ZerarTaxa(t[i].status_proposta, Lookup(taxa_cliente, t[i].cod_cliente)),
             media_status_cliente |-> media(t[i]),
             total_propostas_cliente |-> Lookup(count_cliente, t[i].cod_cliente),
             diferenca_media_cliente |->
                RatSub(Rat(t[i].valor_proposta, 1), media(t[i]))]]

InitProp ==
    /\ propostas_credito \in NonEmptySeqsUpTo(PropostaRows, MaxPropostas)
    /\ prop_out = <<>>
    /\ prop_pc = "call"
    /\ IdleUf /\ IdleMap /\ IdleTab /\ IdleCli /\ IdleEtl /\ IdlePipe

TransformarPropostas ==
    /\ prop_pc = "call"
    /\ prop_out' = transformar_propostas(propostas_credito)
    /\ prop_pc' = "done"
    /\ UNCHANGED propostas_credito

NextProp ==
    TransformarPropostas
        /\ UNCHANGED <<vars_uf, vars_map, vars_tab, vars_cli, vars_etl, vars_pipe>>
SpecProp == InitProp /\ [][NextProp]_vars

\* taxa is exactly aprovadas / total * 100 over the rows of t that have k in col.
IsTaxaOf(taxa, t, col, k) ==
    LET I == {i \in DOMAIN t : t[i][col] = k}
        A == {i \in I : t[i].status_proposta = "Aprovada"}
    IN  ~IsNaN(taxa) /\ taxa.n * Cardinality(I) = 100 * Cardinality(A) * taxa.d

\* C1: after transformar_propostas every row that is not 'Aprovada' has both
\* rates exactly 0; every 'Aprovada' row carries, for its collaborator, the
\* share (in percent) of 'Aprovada' proposals among all proposals of that
\* collaborator, and the same for its client. (A row without a collaborator or
\* client code belongs to no group and carries NaN.)
C1_TaxasAprovacao ==
    prop_pc = "done" =>
        /\ Len(prop_out) = Len(propostas_credito)
        /\ \A i \in DOMAIN propostas_credito :
              LET r == propostas_credito[i]
                  o == prop_out[i]
              IN  /\ o.status_proposta = r.status_proposta
                  /\ o.cod_colaborador = r.cod_colaborador
                  /\ o.cod_cliente = r.cod_cliente
                  /\ r.status_proposta # "Aprovada" =>
                        /\ o.taxa_aprovacao_colab = Rat(0, 1)
                        /\ o.taxa_aprovacao_cliente = Rat(0, 1)
                  /\ (r.status_proposta = "Aprovada" /\ r.cod_colaborador # None) =>
                        IsTaxaOf(o.taxa_aprovacao_colab, propostas_credito,
                                 "cod_colaborador", r.cod_colaborador)
                  /\ (r.status_proposta = "Aprovada" /\ r.cod_cliente # None) =>
                        IsTaxaOf(o.taxa_aprovacao_cliente, propostas_credito,
                                 "cod_cliente", r.cod_cliente)
                  /\ (r.status_proposta = "Aprovada" /\ r.cod_colaborador = None) =>
                        IsNaN(o.taxa_aprovacao_colab)
                  /\ (r.status_proposta = "Aprovada" /\ r.cod_cliente = None) =>
                        IsNaN(o.taxa_aprovacao_cliente)

\* A collaborator with one approved and one refused proposal, of two clients:
\* the approved row carries 50 for the collaborator and 100 for its client,
\* the refused row carries 0 and 0.
C1_Witness ==
    /\ prop_pc = "done"
    /\ \E i, j \in DOMAIN propostas_credito :
          LET r == propostas_credito[i]
              q == propostas_credito[j]
          IN  /\ r.status_proposta = "Aprovada" /\ q.status_proposta = "Negada"
              /\ r.cod_colaborador = q.cod_colaborador /\ r.cod_colaborador # None
              /\ r.cod_cliente # q.cod_cliente /\ r.cod_cliente # None
              /\ RatEq(prop_out[i].taxa_aprovacao_colab, Rat(50, 1))
              /\ RatEq(prop_out[i].taxa_aprovacao_cliente, Rat(100, 1))
              /\ prop_out[j].taxa_aprovacao_colab = Rat(0, 1)
              /\ prop_out[j].taxa_aprovacao_cliente = Rat(0, 1)

(***************************************************************************)
(* The reference map of the states and its accessor: transform.py lines    *)
(* 10-57.                                                                  *)
(***************************************************************************)
UF_MAP ==
    [AC |-> "Acre", AL |-> "Alagoas", AP |-> "Amapa", AM |-> "Amazonas",
     BA |-> "Bahia", CE |-> "Ceara", DF |-> "Distrito Federal",
     ES |-> "Espirito Santo", GO |-> "Goias", MA |-> "Maranhao",
     MT |-> "Mato Grosso", MS |-> "Mato Grosso do Sul", MG |-> "Minas Gerais",
     PA |-> "Para", PB |-> "Paraiba", PR |-> "Parana", PE |-> "Pernambuco",
     PI |-> "Piaui", RJ |-> "Rio de Janeiro", RN |-> "Rio Grande do Norte",
     RS |-> "Rio Grande do Sul", RO |-> "Rondonia", RR |-> "Roraima",
     SC |-> "Santa Catarina", SP |-> "Sao Paulo", SE |-> "Sergipe",
     TO |-> "Tocantins"]

get_uf_map ==
    [callable |-> TRUE, raises |-> FALSE, type |-> "MappingProxyType", items |-> UF_MAP]

(***************************************************************************)
(* Left merge (DataFrame.merge(how='left')): every left row, in order,     *)
(* once for each right row with the same key (in the right table's order), *)
(* and once with nulls when there is none.  nullrow holds the nulls of the *)
(* right table's columns.                                                  *)
(***************************************************************************)
RECURSIVE LeftJoin(_, _, _, _)
LeftJoin(left, right, key, nullrow) ==
    IF left = <<>> THEN <<>>
    ELSE LET h == Head(left)
             m == SelectSeq(right, LAMBDA x : x[key] = h[key])
         IN  (IF m = <<>> THEN <<h @@ nullrow>>
              ELSE [k \in DOMAIN m |-> h @@ m[k]])
             \o LeftJoin(Tail(left), right, key, nullrow)

\* The rows of a table whose column col holds k.
RowsWith(t, col, k) == {i \in DOMAIN t : t[i][col] = k}

(***************************************************************************)
(* Tables of branches, accounts and transactions.                          *)
(***************************************************************************)
MaxAgencias == 2
MaxContas == 2
MaxTransacoes == 2

CodAgencias == {"ag1", "ag2"}
NumContas == {"A1", "A2"}
Saldos == {0, 500}
ValoresTransacao == {100, -2500000, 1500000}
DatasTransacao == {"2024-01-15", "2024-02-20", "invalida"}

AgenciaRows == [cod_agencia : CodAgencias, uf : {"SP", "ZZ"}]
\* cod_agencia is the key of the branches: no two rows share it.
AgenciasTables ==
    {t \in NonEmptySeqsUpTo(AgenciaRows, MaxAgencias) :
        \A i, j \in DOMAIN t : t[i].cod_agencia = t[j].cod_agencia => i = j}

ContaRows ==
    {[num_conta |-> n, cod_agencia |-> a, saldo_disponivel |-> Rat(x, 1)] :
        n \in NumContas, a \in CodAgencias, x \in Saldos}
TransacaoRows ==
    [num_conta : NumContas, valor_transacao : ValoresTransacao,
     data_transacao : DatasTransacao]

(***************************************************************************)
(* transformar_agencias: transform.py lines 170-190.                       *)
(***************************************************************************)
\* groupby(col)[x].mean(), mapped onto a key: NaN for a key with no group.
GroupMean(t, col, x, k) ==
    LET I == RowsWith(t, col, k)
    IN  IF I = {} THEN NaN
        ELSE Rat(SumOver([i \in DOMAIN t |-> t[i][x].n], I), Cardinality(I))
\* groupby(col)[x].count(), mapped onto a key: NaN for a key with no group.
GroupCount(t, col, x, k) ==
    LET I == RowsWith(t, col, k)
    IN  IF I = {} THEN NaN ELSE Rat(Cardinality({i \in I : t[i][x] # None}), 1)
\* groupby(col)[x].sum(), mapped onto a key: NaN for a key with no group.
GroupSum(t, col, x, k) ==
    LET I == RowsWith(t, col, k)
    IN  IF I = {} THEN NaN ELSE Rat(SumOver([i \in DOMAIN t |-> t[i][x]], I), 1)

transformar_agencias(ag, ct, tr) ==
    LET ag1 == aplicar_mapeamento(ag, {"cod_agencia", "uf"}, "uf", get_uf_map).df
        ct1 == LeftJoin(ct, ag1, "cod_agencia", [uf |-> None])
        transacoes_contas ==
            LeftJoin(tr, ct1, "num_conta",
                     [cod_agencia |-> None, saldo_disponivel |-> NaN, uf |-> None])
        transacoes_agencias ==
            LeftJoin(transacoes_contas, ag1, "cod_agencia", [uf |-> None])
    IN  [i \in DOMAIN ag1 |->
            [cod_agencia |-> ag1[i].cod_agencia,
             uf |-> ag1[i].uf,
             saldo_medio |->
                GroupMean(ct1, "cod_agencia", "saldo_disponivel", ag1[i].cod_agencia),
             num_contas |->
                GroupCount(ct1, "cod_agencia", "num_conta", ag1[i].cod_agencia),
             volume_transacoes |->
                GroupSum(transacoes_agencias, "cod_agencia", "valor_transacao",
                         ag1[i].cod_agencia)]]

InitAgencias ==
    /\ agencias \in AgenciasTables
    /\ contas \in NonEmptySeqsUpTo(ContaRows, MaxContas)
    /\ transacoes \in
          SeqsUpTo({r \in TransacaoRows : r.data_transacao = "2024-01-15"
                                          /\ r.valor_transacao # 1500000},
                   MaxTransacoes)
    /\ tab_out = <<>>
    /\ tab_pc = "call"
    /\ IdleUf /\ IdleMap /\ IdleProp /\ IdleCli /\ IdleEtl /\ IdlePipe

TransformarAgencias ==
    /\ tab_pc = "call"
    /\ tab_out' = transformar_agencias(agencias, contas, transacoes)
    /\ tab_pc' = "done"
    /\ UNCHANGED <<agencias, contas, transacoes>>

NextAgencias ==
    TransformarAgencias
        /\ UNCHANGED <<vars_uf, vars_map, vars_prop, vars_cli, vars_etl, vars_pipe>>
SpecAgencias == InitAgencias /\ [][NextAgencias]_vars

\* C2 as stated: after transformar_agencias a branch with no account has
\* num_contas = 0 and null saldo_medio and volume_transacoes; a branch with
\* accounts has num_contas equal to the number of its accounts and saldo_medio
\* equal to the mean of their saldo_disponivel.
C2_AgenciasAggregates ==
    tab_pc = "done" =>
        /\ Len(tab_out) = Len(agencias)
        /\ \A i \in DOMAIN agencias :
              LET I == RowsWith(contas, "cod_agencia", agencias[i].cod_agencia)
                  o == tab_out[i]
                  total == SumOver([j \in DOMAIN contas |-> contas[j].saldo_disponivel.n], I)
              IN  /\ I = {} =>
                        /\ RatEq(o.num_contas, Rat(0, 1))
                        /\ IsNaN(o.saldo_medio)
                        /\ IsNaN(o.volume_transacoes)
                  /\ I # {} =>
                        /\ RatEq(o.num_contas, Rat(Cardinality(I), 1))
                        /\ RatEq(o.saldo_medio, Rat(total, Cardinality(I)))

(***************************************************************************)
(* transformar_transacoes: transform.py lines 199-232.                     *)
(***************************************************************************)
\* Floats with a decimal exponent, n/d * 10^e: the 1e-6 that replaces a zero
\* balance, and the ratios it gives.  NaN has d = 0.
Sci(n, d, e) == [n |-> n, d |-> d, e |-> e]
NaNSci == Sci(0, 0, 0)
RECURSIVE Pow10(_)
Pow10(k) == IF k = 0 THEN 1 ELSE 10 * Pow10(k - 1)
\* x == y on these floats.
SciEq(x, y) ==
    /\ x.d # 0 /\ y.d # 0
    /\ IF x.e >= y.e
       THEN LET k == Pow10(x.e - y.e)
            IN  (y.n * x.d) % k = 0 /\ x.n * y.d = (y.n * x.d) \div k
       ELSE LET k == Pow10(y.e - x.e)
            IN  (x.n * y.d) % k = 0 /\ y.n * x.d = (x.n * y.d) \div k

ClipLower == -1000000
ClipUpper == 1000000
\* A clip that has lost its lower bound.
ClipUpperOnly(x) == IF x > ClipUpper THEN ClipUpper ELSE x
\* Series.clip(lower=-1e6, upper=1e6) on one value.
Clip(x) == IF x < ClipLower THEN ClipLower ELSE IF x > ClipUpper THEN ClipUpper ELSE x
Abs(x) == IF x < 0 THEN -x ELSE x

\* pd.to_datetime(errors='coerce', utc=True): NaT for what is no date.
ToDatetime(raw) == IF raw \in {"2024-01-15", "2024-02-20"} THEN raw ELSE "NaT"
\* .dt.tz_localize(None).dt.to_period('M').astype(str)
ToPeriod(date) ==
    CASE date = "2024-01-15" -> "2024-01"
      [] date = "2024-02-20" -> "2024-02"
      [] OTHER -> "NaT"

\* saldo_disponivel.replace(0, 1e-6)
ReplaceZero(saldo) ==
    IF IsNaN(saldo) THEN NaNSci
    ELSE IF saldo.n = 0 THEN Sci(1, 1, -6) ELSE Sci(saldo.n, saldo.d, 0)
\* valor.abs() / saldo
AbsOver(valor, saldo) ==
    IF saldo.d = 0 THEN NaNSci ELSE Sci(Abs(valor) * saldo.d, saldo.n, -saldo.e)

\* The amounts that lines 213-221 read: the column as it is before line 224
\* clips it.
AmountsClippedFirst(tr) ==
    [i \in DOMAIN tr |-> [tr[i] EXCEPT !.valor_transacao = Clip(tr[i].valor_transacao)]]
AmountsBeforeClip(tr) == tr

\* contas[['num_conta', 'saldo_disponivel']]
ContasSaldo(ct) ==
    [i \in DOMAIN ct |->
        [num_conta |-> ct[i].num_conta, saldo_disponivel |-> ct[i].saldo_disponivel]]

transformar_transacoes(tr0, ct) ==
    LET tr == AmountsBeforeClip(tr0)
        mes_ano == [i \in DOMAIN tr |-> ToPeriod(ToDatetime(tr[i].data_transacao))]
        transacoes_com_saldo ==
            LeftJoin(tr, ContasSaldo(ct), "num_conta", [saldo_disponivel |-> NaN])
        \* computed on the merged table, assigned to transacoes by index
        razao ==
            [i \in DOMAIN transacoes_com_saldo |->
                AbsOver(transacoes_com_saldo[i].valor_transacao,
                        ReplaceZero(transacoes_com_saldo[i].saldo_disponivel))]
        \* line 224 and again line 228
        clipped == [i \in DOMAIN tr |-> Clip(Clip(tr0[i].valor_transacao))]
        evolucao(m) == SumOver(clipped, {j \in DOMAIN tr : mes_ano[j] = m})
    IN  [i \in DOMAIN tr |->
            [num_conta |-> tr[i].num_conta,
             data_transacao |-> ToDatetime(tr[i].data_transacao),
             mes_ano |-> mes_ano[i],
             valor_medio_conta |->
                LET I == RowsWith(tr, "num_conta", tr[i].num_conta)
                IN  Rat(SumOver([j \in DOMAIN tr |-> tr[j].valor_transacao], I),
                        Cardinality(I)),
             valor_vs_saldo |-> razao[i],
             freq_transacoes |-> Cardinality(RowsWith(tr, "num_conta", tr[i].num_conta)),
             valor_transacao |-> clipped[i],
             valor_transacao_evolucao |-> evolucao(mes_ano[i])]]

InitTransacoes ==
    /\ agencias = <<>>
    /\ contas \in SeqsUpTo({c \in ContaRows : c.cod_agencia = "ag1"}, MaxContas)
    /\ transacoes \in NonEmptySeqsUpTo(TransacaoRows, MaxTransacoes)
    /\ tab_out = <<>>
    /\ tab_pc = "call"
    /\ IdleUf /\ IdleMap /\ IdleProp /\ IdleCli /\ IdleEtl /\ IdlePipe

TransformarTransacoes ==
    /\ tab_pc = "call"
    /\ tab_out' = transformar_transacoes(transacoes, contas)
    /\ tab_pc' = "done"
    /\ UNCHANGED <<agencias, contas, transacoes>>

NextTransacoes ==
    TransformarTransacoes
        /\ UNCHANGED <<vars_uf, vars_map, vars_prop, vars_cli, vars_etl, vars_pipe>>
SpecTransacoes == InitTransacoes /\ [][NextTransacoes]_vars

\* The scenario of the documentation: the transactions are those of account
\* A1, of 100 and -2,500,000, and A1 is one account with a balance of 500.
ScenarioA1 ==
    /\ Len(transacoes) = 2
    /\ transacoes[1].num_conta = "A1" /\ transacoes[1].valor_transacao = 100
    /\ transacoes[2].num_conta = "A1" /\ transacoes[2].valor_transacao = -2500000
    /\ \E k \in DOMAIN contas :
          /\ contas[k].num_conta = "A1" /\ contas[k].saldo_disponivel = Rat(500, 1)
          /\ \A j \in DOMAIN contas : contas[j].num_conta = "A1" => j = k

UniqueContas == \A j, k \in DOMAIN contas : contas[j].num_conta = contas[k].num_conta => j = k

\* The mean of f(valor_transacao) over the transactions of row i's account, and
\* |f(valor_transacao)| of row i over the balance of its (one) account.
IsMeanOf(x, i, f(_)) ==
    LET I == RowsWith(transacoes, "num_conta", transacoes[i].num_conta)
    IN  RatEq(x, Rat(SumOver([j \in DOMAIN transacoes |-> f(transacoes[j].valor_transacao)], I),
                     Cardinality(I)))
IsRatioOf(x, i, f(_)) ==
    \A k \in DOMAIN contas :
        (contas[k].num_conta = transacoes[i].num_conta /\ contas[k].saldo_disponivel.n # 0) =>
            SciEq(x, Sci(Abs(f(transacoes[i].valor_transacao)), contas[k].saldo_disponivel.n, 0))
Unclipped(v) == v

\* C3 as stated: valor_medio_conta and valor_vs_saldo are computed from the
\* clipped amounts and freq_transacoes counts the transactions of the account;
\* in the scenario the amounts are 100 and -1,000,000, the mean is -499,950,
\* the ratios are 0.2 and 2000 and the frequency is 2.
C3_AggregatesFromClipped ==
    tab_pc = "done" =>
        /\ \A i \in DOMAIN transacoes :
              /\ tab_out[i].valor_transacao = Clip(transacoes[i].valor_transacao)
              /\ tab_out[i].freq_transacoes =
                    Cardinality(RowsWith(transacoes, "num_conta", transacoes[i].num_conta))
              /\ IsMeanOf(tab_out[i].valor_medio_conta, i, Clip)
              /\ UniqueContas => IsRatioOf(tab_out[i].valor_vs_saldo, i, Clip)
        /\ ScenarioA1 =>
              /\ tab_out[1].valor_transacao = 100 /\ tab_out[2].valor_transacao = -1000000
              /\ RatEq(tab_out[1].valor_medio_conta, Rat(-499950, 1))
              /\ RatEq(tab_out[2].valor_medio_conta, Rat(-499950, 1))
              /\ SciEq(tab_out[1].valor_vs_saldo, Sci(2, 10, 0))
              /\ SciEq(tab_out[2].valor_vs_saldo, Sci(2000, 1, 0))
              /\ tab_out[1].freq_transacoes = 2 /\ tab_out[2].freq_transacoes = 2

\* C3 amended: valor_medio_conta and valor_vs_saldo are computed from the
\* amounts as they came in, before the clip (the ratio, for accounts that occur
\* once in the accounts table); only valor_transacao itself is clipped; in the
\* scenario the amounts are 100 and -1,000,000, the mean is -1,249,950, the
\* ratios are 0.2 and 5000 and the frequency is 2.
C3_AggregatesFromUnclipped ==
    tab_pc = "done" =>
        /\ \A i \in DOMAIN transacoes :
              /\ tab_out[i].valor_transacao = Clip(transacoes[i].valor_transacao)
              /\ tab_out[i].freq_transacoes =
                    Cardinality(RowsWith(transacoes, "num_conta", transacoes[i].num_conta))
              /\ IsMeanOf(tab_out[i].valor_medio_conta, i, Unclipped)
              /\ UniqueContas => IsRatioOf(tab_out[i].valor_vs_saldo, i, Unclipped)
        /\ ScenarioA1 =>
              /\ tab_out[1].valor_transacao = 100 /\ tab_out[2].valor_transacao = -1000000
              /\ RatEq(tab_out[1].valor_medio_conta, Rat(-1249950, 1))
              /\ RatEq(tab_out[2].valor_medio_conta, Rat(-1249950, 1))
              /\ SciEq(tab_out[1].valor_vs_saldo, Sci(2, 10, 0))
              /\ SciEq(tab_out[2].valor_vs_saldo, Sci(5000, 1, 0))
              /\ tab_out[1].freq_transacoes = 2 /\ tab_out[2].freq_transacoes = 2

\* The scenario, transformed.
C3_Witness == tab_pc = "done" /\ ScenarioA1 /\ Len(tab_out) = 2

\* The accounts of the accounts table that transaction i was made on.
OwnContas(i) == RowsWith(contas, "num_conta", transacoes[i].num_conta)
\* x is |amount of transaction i| over the balance of account k, a zero
\* balance taken as 1e-6; the amount as it came in or as it is returned.
IsOwnRatio(x, i, k) ==
    \/ SciEq(x, AbsOver(transacoes[i].valor_transacao,
                        ReplaceZero(contas[k].saldo_disponivel)))
    \/ SciEq(x, AbsOver(Clip(transacoes[i].valor_transacao),
                        ReplaceZero(contas[k].saldo_disponivel)))

\* C12: transformar_transacoes returns one row for each transaction, in the
\* order they came in, and the valor_vs_saldo of a row is null when the
\* transaction's account is not in the accounts table and otherwise the
\* absolute amount of that transaction over the balance of an account of its
\* own num_conta (zero taken as 1e-6), whether or not num_conta is unique in
\* the accounts table.
C12_OneRowPerTransactionOwnBalance ==
    tab_pc = "done" =>
        /\ Len(tab_out) = Len(transacoes)
        /\ \A i \in DOMAIN transacoes :
              /\ tab_out[i].num_conta = transacoes[i].num_conta
              /\ tab_out[i].data_transacao = ToDatetime(transacoes[i].data_transacao)
              /\ tab_out[i].valor_transacao = Clip(transacoes[i].valor_transacao)
              /\ IF OwnContas(i) = {}
                 THEN tab_out[i].valor_vs_saldo.d = 0
                 ELSE \E k \in OwnContas(i) : IsOwnRatio(tab_out[i].valor_vs_saldo, i, k)

(***************************************************************************)
(* The clip of transformar_transacoes, transform.py lines 224-228, on      *)
(* amounts at, next to and far from the two bounds.                        *)
(***************************************************************************)
ValoresClip ==
    {-2500000, ClipLower - 1, ClipLower, ClipLower + 1, 0, 100,
     ClipUpper - 1, ClipUpper, ClipUpper + 1, 1500000}

InitClip ==
    /\ agencias = <<>>
    /\ contas = <<>>
    /\ transacoes \in
          NonEmptySeqsUpTo([num_conta : {"A1"}, valor_transacao : ValoresClip,
                            data_transacao : {"2024-01-15"}],
                           MaxTransacoes)
    /\ tab_out = <<>>
    /\ tab_pc = "call"
    /\ IdleUf /\ IdleMap /\ IdleProp /\ IdleCli /\ IdleEtl /\ IdlePipe
SpecClip == InitClip /\ [][NextTransacoes]_vars

\* C11: after transformar_transacoes every valor_transacao lies in
\* [-1,000,000, 1,000,000]; an amount that came in inside the interval is
\* unchanged, one below it is exactly -1,000,000 and one above it exactly
\* 1,000,000; and the clip applied again changes nothing, to the output and
\* to the once clipped input alike.
C11_ClipExactIdempotent ==
    tab_pc = "done" =>
        \A i \in DOMAIN transacoes :
            LET x == transacoes[i].valor_transacao
                y == tab_out[i].valor_transacao
            IN  /\ -1000000 <= y /\ y <= 1000000
                /\ (-1000000 <= x /\ x <= 1000000) => y = x
                /\ x < -1000000 => y = -1000000
                /\ x > 1000000 => y = 1000000
                /\ Clip(y) = y
                /\ Clip(Clip(x)) = Clip(x)

\* Amounts on both sides of the interval and on its bounds have been clipped.
C11_Witness ==
    /\ tab_pc = "done"
    /\ \E i, j \in DOMAIN transacoes :
          /\ transacoes[i].valor_transacao < ClipLower
          /\ tab_out[i].valor_transacao = ClipLower
          /\ transacoes[j].valor_transacao \in {ClipUpper, ClipUpper + 1}
          /\ tab_out[j].valor_transacao = ClipUpper

(***************************************************************************)
(* transformar_clientes: transform.py lines 122-168.                       *)
(* A date of the input is a text of some form (ISO, day/month/year, no     *)
(* date at all, missing) that names, if it is a date, a day `dias` days    *)
(* before now.  A parsed date is the number of days before now, NaN is NaT.*)
(***************************************************************************)
MaxClientes == 2

TIPO_CLIENTE_MAP == [PF |-> "Pessoa Fisica", PJ |-> "Pessoa Juridica"]
get_tipo_cliente_map ==
    [callable |-> TRUE, raises |-> FALSE, type |-> "MappingProxyType",
     items |-> TIPO_CLIENTE_MAP]

DataText(forma, dias) == [forma |-> forma, dias |-> dias]
DatasInclusao ==
    {DataText("iso", 45), DataText("iso", 75), DataText("texto", 0), DataText("nulo", 0)}
DatasNascimento ==
    {DataText("dmy", 10000), DataText("iso", 10000), DataText("nulo", 0)}

ClienteRows ==
    [endereco : {Str(AvPaulista), Str(SemEstado), NaText},
     tipo_cliente : {"PF", "XX"},
     primeiro_nome : {"Ana"}, ultimo_nome : {"Silva"},
     data_inclusao : DatasInclusao, data_nascimento : DatasNascimento]

\* pd.to_datetime(col, errors='coerce'): any usual form of date is read.
ToDatetimeFlexible(d) == IF d.forma \in {"iso", "dmy"} THEN Rat(d.dias, 1) ELSE NaN
\* pd.to_datetime(col, format='%d/%m/%Y', errors='coerce')
ToDatetimeDMY(d) == IF d.forma = "dmy" THEN Rat(d.dias, 1) ELSE NaN

\* (days / 30).round(): to the nearest integer, a half to the even one.
RoundMonths(dias) ==
    LET q == dias \div 30
        r == dias % 30
    IN  IF r < 15 THEN q
        ELSE IF r > 15 THEN q + 1
        ELSE IF q % 2 = 0 THEN q ELSE q + 1

\* ((now - data_inclusao).dt.days / 30).round(), a float column.
TempoFloat(date) == IF IsNaN(date) THEN NaN ELSE Rat(RoundMonths(date.n), 1)
\* .astype(int) raises on a column that holds a NaN.
AstypeIntRaises(col) == \E i \in DOMAIN col : IsNaN(col[i])

\* (today - data_nascimento).dt.days // 365, then .astype('Int64'): <NA> for NaT.
Idade(date) == IF IsNaN(date) THEN NaN ELSE Rat(date.n \div 365, 1)

\* processar_nome_completo (lines 122-130) on one row that has both names.
NomeCompleto(r) == r.primeiro_nome \o " " \o r.ultimo_nome

transformar_clientes(cl) ==
    LET with_uf == [i \in DOMAIN cl |->
                       [tipo_cliente |-> cl[i].tipo_cliente,
                        uf |-> extrair_uf(cl[i].endereco)]]
        cols == {"tipo_cliente", "uf"}
        m1 == aplicar_mapeamento(with_uf, cols, "uf", get_uf_map).df
        m2 == aplicar_mapeamento(m1, cols, "tipo_cliente", get_tipo_cliente_map).df
        data_inclusao == [i \in DOMAIN cl |-> ToDatetimeFlexible(cl[i].data_inclusao)]
        tempo == [i \in DOMAIN cl |-> TempoFloat(data_inclusao[i])]
        nascimento == [i \in DOMAIN cl |-> ToDatetimeDMY(cl[i].data_nascimento)]
    IN  IF AstypeIntRaises(tempo) THEN [raised |-> TRUE, df |-> <<>>]
        ELSE [raised |-> FALSE,
              df |-> [i \in DOMAIN cl |->
                        [endereco |-> cl[i].endereco,
                         uf |-> m2[i].uf,
                         tipo_cliente |-> m2[i].tipo_cliente,
                         nome_completo |-> NomeCompleto(cl[i]),
                         data_inclusao |-> data_inclusao[i],
                         tempo_como_cliente_meses |-> tempo[i],
                         data_nascimento |-> nascimento[i],
                         idade |-> Idade(nascimento[i])]]]

InitClientes ==
    /\ clientes \in NonEmptySeqsUpTo(ClienteRows, MaxClientes)
    /\ cli_out = <<>>
    /\ cli_raised = FALSE
    /\ cli_pc = "call"
    /\ IdleUf /\ IdleMap /\ IdleProp /\ IdleTab /\ IdleEtl /\ IdlePipe

TransformarClientes ==
    /\ cli_pc = "call"
    /\ LET r == transformar_clientes(clientes)
       IN  cli_out' = r.df /\ cli_raised' = r.raised
    /\ cli_pc' = "done"
    /\ UNCHANGED clientes

NextClientes ==
    TransformarClientes
        /\ UNCHANGED <<vars_uf, vars_map, vars_prop, vars_tab, vars_etl, vars_pipe>>
SpecClientes == InitClientes /\ [][NextClientes]_vars

\* C6: transformar_clientes never raises because of a date: every row is
\* returned; a row whose data_inclusao is no date has a null data_inclusao and
\* a null tempo_como_cliente_meses, a row whose data_nascimento is no
\* day/month/year date has a null idade, and the other rows have their tenure
\* and age.
C6_DatesCoercedNeverRaise ==
    cli_pc = "done" =>
        /\ ~cli_raised
        /\ Len(cli_out) = Len(clientes)
        /\ \A i \in DOMAIN clientes :
              LET r == clientes[i]
                  o == cli_out[i]
              IN  /\ r.data_inclusao.forma \in {"texto", "nulo"} =>
                        IsNaN(o.data_inclusao) /\ IsNaN(o.tempo_como_cliente_meses)
                  /\ r.data_inclusao.forma \in {"iso", "dmy"} =>
                        ~IsNaN(o.tempo_como_cliente_meses)
                  /\ r.data_nascimento.forma # "dmy" => IsNaN(o.idade)
                  /\ r.data_nascimento.forma = "dmy" =>
                        RatEq(o.idade, Rat(r.data_nascimento.dias \div 365, 1))

(***************************************************************************)
(* executar_etl: main.py lines 19-56.                                      *)
(* Invocations of executar_etl that share one environment (os.environ).    *)
(* Each runs the function line by line; the steps of different invocations *)
(* interleave.  runs[i] lists the subprocesses invocation i started, with  *)
(* the code each exited with (Running while it has not exited).            *)
(***************************************************************************)
NumInvocations == 3
Invocations == 1..NumInvocations

Running == -1
Steps == <<"extract", "transform", "load">>
ExitCodes == {0, 1}

\* Where the function goes after a subprocess has exited: subprocess.run with
\* check=True raises CalledProcessError on a non-zero code.
PcAfterStep(k) == IF k < Len(Steps) THEN Steps[k + 1] ELSE "report"
AfterRunUnchecked(k, rc) == PcAfterStep(k)
AfterRun(k, rc) == IF rc = 0 THEN PcAfterStep(k) ELSE "except"

InitEtl ==
    /\ pc = [i \in Invocations |-> "idle"]
    /\ ETL_EXECUTING = None
    /\ runs = [i \in Invocations |-> <<>>]
    /\ exc = [i \in Invocations |-> None]
    /\ exit_code = [i \in Invocations |-> Running]
    /\ reported = [i \in Invocations |-> FALSE]
    /\ IdleUf /\ IdleMap /\ IdleProp /\ IdleTab /\ IdleCli /\ IdlePipe

\* line 26-27: if os.getenv("ETL_EXECUTING") == "1": raise RuntimeError
CheckGuard(i) ==
    /\ pc[i] = "idle"
    /\ IF ETL_EXECUTING = "1"
       THEN /\ exc' = [exc EXCEPT ![i] = "RuntimeError"]
            /\ pc' = [pc EXCEPT ![i] = "finally"]
       ELSE /\ pc' = [pc EXCEPT ![i] = "mark"]
            /\ UNCHANGED exc
    /\ UNCHANGED <<ETL_EXECUTING, runs, exit_code, reported>>

\* line 30: os.environ["ETL_EXECUTING"] = "1"
Mark(i) ==
    /\ pc[i] = "mark"
    /\ ETL_EXECUTING' = "1"
    /\ pc' = [pc EXCEPT ![i] = Steps[1]]
    /\ UNCHANGED <<runs, exc, exit_code, reported>>

\* lines 34, 39, 45: subprocess.run starts the step's process ...
StartStep(i) ==
    /\ \E k \in DOMAIN Steps :
          /\ pc[i] = Steps[k]
          /\ runs' = [runs EXCEPT ![i] = Append(@, [step |-> Steps[k], rc |-> Running])]
    /\ pc' = [pc EXCEPT ![i] = "wait"]
    /\ UNCHANGED <<ETL_EXECUTING, exc, exit_code, reported>>

\* ... and waits for it to exit, with some code.
ExitStep(i) ==
    /\ pc[i] = "wait"
    /\ \E rc \in ExitCodes :
          LET k == Len(runs[i])
          IN  /\ runs' = [runs EXCEPT ![i][k].rc = rc]
              /\ pc' = [pc EXCEPT ![i] = AfterRun(k, rc)]
              /\ exc' = [exc EXCEPT ![i] = IF AfterRun(k, rc) = "except"
                                           THEN "CalledProcessError" ELSE @]
    /\ UNCHANGED <<ETL_EXECUTING, exit_code, reported>>

\* lines 48-49: the elapsed time is printed.
Report(i) ==
    /\ pc[i] = "report"
    /\ reported' = [reported EXCEPT ![i] = TRUE]
    /\ pc' = [pc EXCEPT ![i] = "finally"]
    /\ UNCHANGED <<ETL_EXECUTING, runs, exc, exit_code>>

\* lines 51-53: except CalledProcessError: sys.exit(1)
Except(i) ==
    /\ pc[i] = "except"
    /\ exc' = [exc EXCEPT ![i] = "SystemExit"]
    /\ pc' = [pc EXCEPT ![i] = "finally"]
    /\ UNCHANGED <<ETL_EXECUTING, runs, exit_code, reported>>

\* lines 54-56: finally: os.environ.pop("ETL_EXECUTING", None); then the
\* function returns, or the pending exception ends the invocation with code 1.
Finally(i) ==
    /\ pc[i] = "finally"
    /\ ETL_EXECUTING' = None
    /\ exit_code' = [exit_code EXCEPT ![i] = IF exc[i] = None THEN 0 ELSE 1]
    /\ pc' = [pc EXCEPT ![i] = "exited"]
    /\ UNCHANGED <<runs, exc, reported>>

NextEtl ==
    /\ \E i \in Invocations :
          \/ CheckGuard(i)
          \/ Mark(i)
          \/ StartStep(i)
          \/ ExitStep(i)
          \/ Report(i)
          \/ Except(i)
          \/ Finally(i)
    /\ UNCHANGED <<vars_uf, vars_map, vars_prop, vars_tab, vars_cli, vars_pipe>>
SpecEtl == InitEtl /\ [][NextEtl]_vars

AllZero(i) == Len(runs[i]) = Len(Steps) /\ \A k \in DOMAIN runs[i] : runs[i][k].rc = 0

\* C7: every invocation starts its steps in the order extraction,
\* transformation, load; a step is started only when every earlier step has
\* exited with zero; after a step has exited non-zero no later step is started
\* and the invocation exits non-zero; it exits with 0, the elapsed time
\* reported, only if the three steps exited with zero.
C7_StepsInOrderStopAtFailure ==
    \A i \in Invocations :
        /\ Len(runs[i]) <= Len(Steps)
        /\ \A k \in DOMAIN runs[i] :
              /\ runs[i][k].step = Steps[k]
              /\ k < Len(runs[i]) => runs[i][k].rc = 0
        /\ reported[i] => AllZero(i)
        /\ pc[i] = "exited" =>
              /\ exit_code[i] \in {0, 1}
              /\ exit_code[i] = 0 => AllZero(i) /\ reported[i]
              /\ (\E k \in DOMAIN runs[i] : runs[i][k].rc # 0) => exit_code[i] # 0
              /\ AllZero(i) => exit_code[i] = 0

\* One invocation ran the three steps and exited with 0; another stopped at a
\* failed transformation, without starting the load, and exited with 1.
C7_Witness ==
    \E i, j \in Invocations :
        /\ pc[i] = "exited" /\ exit_code[i] = 0 /\ reported[i] /\ AllZero(i)
        /\ pc[j] = "exited" /\ exit_code[j] = 1
        /\ runs[j] = <<[step |-> "extract", rc |-> 0], [step |-> "transform", rc |-> 1]>>

\* An invocation that has set the marker and has not exited.
PastGuard(i) ==
    pc[i] \in {"extract", "transform", "load", "wait", "report", "except", "finally"}
        /\ exc[i] # "RuntimeError"

\* C8: while an invocation that has set ETL_EXECUTING has not exited, the
\* marker stays set, no other invocation is past the guard, and an invocation
\* stopped by the guard has run no step.
C8_ReentrancyGuardHolds ==
    /\ \A i \in Invocations : PastGuard(i) => ETL_EXECUTING = "1"
    /\ \A i, j \in Invocations : (PastGuard(i) /\ PastGuard(j)) => i = j
    /\ \A i \in Invocations : exc[i] = "RuntimeError" => runs[i] = <<>>

(***************************************************************************)
(* The pipeline over the source files: extract.py lines 5-105, transform.py*)
(* lines 308-339, load.py lines 1-39, run one after the other as main.py   *)
(* runs them (a step that fails ends the run).  A table is named by its    *)
(* key; the artifacts are named by the tables they hold.  The folders are  *)
(* empty when the run starts.                                              *)
(***************************************************************************)
arquivos_csv ==
    <<"agencias.csv", "colaborador_agencia.csv", "colaboradores.csv",
      "contas.csv", "propostas_credito.csv", "transacoes.csv">>
ArquivoExcel == "clientes.xlsx"
SourceFiles == Range(arquivos_csv) \cup {ArquivoExcel}

\* os.path.splitext(arquivo)[0]; the Excel table is stored as 'clientes'.
nome_df ==
    [f \in SourceFiles |->
        CASE f = "agencias.csv" -> "agencias"
          [] f = "colaborador_agencia.csv" -> "colaborador_agencia"
          [] f = "colaboradores.csv" -> "colaboradores"
          [] f = "contas.csv" -> "contas"
          [] f = "propostas_credito.csv" -> "propostas_credito"
          [] f = "transacoes.csv" -> "transacoes"
          [] OTHER -> "clientes"]

\* transform.py main, lines 327-334: the tables each line reads from the dict.
TransformReads ==
    <<{"clientes"}, {"agencias", "contas", "transacoes"}, {"contas"},
      {"transacoes", "contas"}, {"propostas_credito"}, {"colaboradores"}>>

\* load.py lines 12-18: the pickles read, in order.
LoadReads ==
    <<"agencias", "clientes", "colaborador_agencia", "colaboradores", "contas",
      "propostas_credito", "transacoes">>

At(name, k) == [name |-> name, k |-> k]
Failed(error) ==
    /\ stage' = At("failed", 0)
    /\ stage_error' = error

InitPipeline ==
    /\ source_files \in SUBSET SourceFiles
    /\ stage = At("extract_csv", 1)
    /\ tabelas = {}
    /\ warnings = {}
    /\ pkl_extraidos = {}
    /\ pkl_transformados = {}
    /\ csv_tratados = {}
    /\ stage_error = None
    /\ IdleUf /\ IdleMap /\ IdleProp /\ IdleTab /\ IdleCli /\ IdleEtl

\* extract.py lines 18-44: one turn of the loop of carregar_dados_csv.
ExtractCsv ==
    /\ stage.name = "extract_csv"
    /\ LET arquivo == arquivos_csv[stage.k]
       IN  IF arquivo \notin source_files
           THEN /\ warnings' = warnings \cup {arquivo}
                /\ UNCHANGED tabelas
           ELSE /\ tabelas' = tabelas \cup {nome_df[arquivo]}
                /\ UNCHANGED warnings
    /\ stage' = IF stage.k < Len(arquivos_csv)
                THEN At("extract_csv", stage.k + 1) ELSE At("extract_excel", 0)
    /\ UNCHANGED <<source_files, pkl_extraidos, pkl_transformados, csv_tratados,
                   stage_error>>

\* extract.py lines 92-94 (carregar_excel, lines 59-71).
ExtractExcel ==
    /\ stage.name = "extract_excel"
    /\ IF ArquivoExcel \notin source_files
       THEN /\ warnings' = warnings \cup {ArquivoExcel}
            /\ UNCHANGED tabelas
       ELSE /\ tabelas' = tabelas \cup {nome_df[ArquivoExcel]}
            /\ UNCHANGED warnings
    /\ stage' = At("extract_dump", 0)
    /\ UNCHANGED <<source_files, pkl_extraidos, pkl_transformados, csv_tratados,
                   stage_error>>

\* extract.py lines 102-103: pickle.dump(tabelas); the step exits with 0.
ExtractDump ==
    /\ stage.name = "extract_dump"
    /\ pkl_extraidos' = tabelas
    /\ tabelas' = {}
    /\ stage' = At("transform_load", 0)
    /\ UNCHANGED <<source_files, warnings, pkl_transformados, csv_tratados, stage_error>>

\* transform.py line 324: tabelas = carregar_dados(input_path)
TransformLoad ==
    /\ stage.name = "transform_load"
    /\ tabelas' = pkl_extraidos
    /\ stage' = At("transform", 1)
    /\ UNCHANGED <<source_files, warnings, pkl_extraidos, pkl_transformados,
                   csv_tratados, stage_error>>

\* transform.py lines 327-334, one line: tabelas[key] raises KeyError for a
\* table that was not extracted.
TransformLine ==
    /\ stage.name = "transform"
    /\ IF TransformReads[stage.k] \subseteq tabelas
       THEN /\ stage' = IF stage.k < Len(TransformReads)
                        THEN At("transform", stage.k + 1) ELSE At("transform_save", 0)
            /\ UNCHANGED stage_error
       ELSE Failed("KeyError")
    /\ UNCHANGED <<source_files, tabelas, warnings, pkl_extraidos, pkl_transformados,
                   csv_tratados>>

\* transform.py line 337 (salvar_dados, lines 308-316): one pickle for each table.
TransformSave ==
    /\ stage.name = "transform_save"
    /\ pkl_transformados' = tabelas
    /\ tabelas' = {}
    /\ stage' = At("load", 1)
    /\ UNCHANGED <<source_files, warnings, pkl_extraidos, csv_tratados, stage_error>>

\* load.py lines 12-18, one line: pd.read_pickle raises FileNotFoundError for
\* a pickle that was not written.
LoadRead ==
    /\ stage.name = "load"
    /\ IF LoadReads[stage.k] \in pkl_transformados
       THEN /\ tabelas' = tabelas \cup {LoadReads[stage.k]}
            /\ stage' = IF stage.k < Len(LoadReads)
                        THEN At("load", stage.k + 1) ELSE At("load_save", 0)
            /\ UNCHANGED stage_error
       ELSE Failed("FileNotFoundError") /\ UNCHANGED tabelas
    /\ UNCHANGED <<source_files, warnings, pkl_extraidos, pkl_transformados,
                   csv_tratados>>

\* load.py lines 33-39: the seven CSV files are written.
LoadSave ==
    /\ stage.name = "load_save"
    /\ csv_tratados' = tabelas
    /\ stage' = At("done", 0)
    /\ UNCHANGED <<source_files, tabelas, warnings, pkl_extraidos, pkl_transformados,
                   stage_error>>

NextPipeline ==
    /\ \/ ExtractCsv
       \/ ExtractExcel
       \/ ExtractDump
       \/ TransformLoad
       \/ TransformLine
       \/ TransformSave
       \/ LoadRead
       \/ LoadSave
    /\ UNCHANGED <<vars_uf, vars_map, vars_prop, vars_tab, vars_cli, vars_etl>>
SpecPipeline == InitPipeline /\ [][NextPipeline]_vars

Extracted == stage.name \notin {"extract_csv", "extract_excel", "extract_dump"}
PresentTables == {nome_df[f] : f \in source_files}

\* C9: whatever source files are missing, the ingestion warns of each of them
\* and loads every file that exists, and the run never fails: it goes on
\* through transformation and load and ends with the tables of the files that
\* exist.
C9_MissingFileNeverFatal ==
    /\ Extracted =>
          /\ warnings = SourceFiles \ source_files
          /\ pkl_extraidos = PresentTables
    /\ stage.name # "failed"
    /\ stage.name = "done" => csv_tratados = PresentTables

====
